---- MODULE Spec2Model ----
(***************************************************************************)
(* Model of the admin dashboard's authenticated API client                 *)
(* (src/services/api.ts) and its session lifecycle                         *)
(* (src/contexts/AuthContext.tsx).                                         *)
(*                                                                         *)
(* A JavaScript task (an event handler, or a response together with the    *)
(* promise continuations it resolves) runs to completion, so every action  *)
(* below is one task.  A task is written as the sequence of side effects   *)
(* it performs, in program order; the next state is obtained by applying   *)
(* that sequence to the current state.                                     *)
(***************************************************************************)
EXTENDS Integers, Sequences, FiniteSets, Bags, TLC

VARIABLES
  lsToken,    \* localStorage 'token': None or <<text>>
  lsUser,     \* localStorage 'user': None or <<text>>
  user,       \* AuthProvider state `user`: None (null) or <<profile>>
  isLoading,  \* AuthProvider state `isLoading`
  initPc,     \* position of initializeAuth: "start", "verifying", "done"
  pending,    \* bag of the requests sent and not yet answered
  location,   \* path of the loaded document
  nav,        \* navigation requested by window.location.href = ..., not yet carried out
  effects,    \* the side effects of the latest task, in program order
  last,       \* the latest task
  errIn,      \* argument of extractErrorMessage
  errOut,     \* its result, None before the call
  urlFn,      \* the URL function called, "" before the call
  urlIn,      \* its argument
  urlOut,     \* its result, None before the call
  urlAgain,   \* the result of getMediaUrl applied to urlOut, None before that call
  media,      \* argument of getBestImageUrl
  bestOut,    \* its result, None before the call
  imgView,    \* the component showing the notice image: "page" or "banner"
  imgPath,    \* notice.image
  imgSrc,     \* the src attribute of the <img> element
  imgHidden,  \* style.display = 'none' was set on the element
  imageLoadAttempts,  \* component state imageLoadAttempts[imgPath] || 0
  imgLog,     \* what handleImageError did at each error event, oldest first
  currentPage,       \* Contacts state `currentPage`
  totalPages,        \* Contacts state `totalPages`
  statusFilter,      \* Contacts state `statusFilter`
  searchTerm,        \* Contacts state `searchTerm`
  contacts,          \* Contacts state `contacts`: the _id of each contact shown
  selectedContacts,  \* Contacts state `selectedContacts`
  contactsLoading,   \* Contacts state `isLoading`
  calls,             \* bag of the calls of the Contacts view not yet answered
  shown,             \* what became of the fetch sent last
  gridItem,          \* the media item of one grid cell
  gridSrc,           \* the src attribute of its <img> element
  imageLoadingStates,  \* MediaPage state imageLoadingStates[item._id]
  gridLog,           \* the events of that element, oldest first
  notice,            \* NoticeBanner state `notice`: None (null) or <<notice>>
  isVisible,         \* NoticeBanner state `isVisible`
  bannerLoading,     \* NoticeBanner state `isLoading`
  bannerPc,          \* position of fetchCurrentNotice: "mount", "fetching", "done"
  bannerGot          \* what getCurrentNotice handed over, None before that

sessionVars == <<lsToken, lsUser, user, isLoading, initPc, pending, location, nav, effects, last>>
extractVars == <<errIn, errOut>>
urlVars == <<urlFn, urlIn, urlOut, urlAgain>>
bestVars == <<media, bestOut>>
imageVars == <<imgView, imgPath, imgSrc, imgHidden, imageLoadAttempts, imgLog>>
contactsVars == <<currentPage, totalPages, statusFilter, searchTerm, contacts,
                  selectedContacts, contactsLoading, calls, shown>>
gridVars == <<gridItem, gridSrc, imageLoadingStates, gridLog>>
bannerVars == <<notice, isVisible, bannerLoading, bannerPc, bannerGot>>
viewVars == <<contactsVars, gridVars, bannerVars>>
\* everything but the session
otherVars == <<extractVars, urlVars, bestVars, imageVars, viewVars>>
vars == <<lsToken, lsUser, user, isLoading, initPc, pending, location, nav, effects, last,
          errIn, errOut, urlFn, urlIn, urlOut, urlAgain, media, bestOut,
          imgView, imgPath, imgSrc, imgHidden, imageLoadAttempts, imgLog,
          currentPage, totalPages, statusFilter, searchTerm, contacts,
          selectedContacts, contactsLoading, calls, shown,
          gridItem, gridSrc, imageLoadingStates, gridLog,
          notice, isVisible, bannerLoading, bannerPc, bannerGot>>

(***************************************************************************)
(* Bounds                                                                  *)
(***************************************************************************)
MaxPending == 2
MaxErrors == 2

(***************************************************************************)
(* Values.  An optional value (null / undefined / absent key) is the empty *)
(* tuple, a present value v is <<v>>.                                      *)
(***************************************************************************)
None == <<>>
Some(v) == <<v>>

Tokens == {"t1", "t2"}
Profiles == {[id |-> "u1", name |-> "ann"], [id |-> "u1", name |-> "bob"]}

\* JSON.stringify of a profile: the text kept under the storage key 'user'
JSONstringify(p) == <<"{", p.id, p.name, "}">>
\* a stored text that is not the JSON of a profile
CorruptText == <<"undefined">>
JSONparses(s) == Len(s) = 4 /\ s[1] = "{" /\ s[4] = "}"
JSONparse(s) == [id |-> s[2], name |-> s[3]]

LoginPath == "/login"

(***************************************************************************)
(* Errors.  An AxiosError is modelled by what extractErrorMessage reads:   *)
(*   status  the HTTP status, 0 when no response was received              *)
(*   isObj   response.data is a (non-null) object                          *)
(*   message / error   the body's `message` / `error` field, if the key    *)
(*           is in the body                                                *)
(*   errors  the body's `errors` field: present (key in body), isArray,    *)
(*           items (each item the optional `message` it exposes)           *)
(*   text    error.message, the transport's own text                       *)
(***************************************************************************)
NoErrors == [present |-> FALSE, isArray |-> FALSE, items |-> <<>>]
NotArrayErrors == [present |-> TRUE, isArray |-> FALSE, items |-> <<>>]
ArrayErrors(items) == [present |-> TRUE, isArray |-> TRUE, items |-> items]

\* JavaScript truthiness of an optional string
Truthy(o) == o # None /\ o[1] # ""

\* statusFallback with the case for 429 left out
statusFallbackNo429(error) ==
  CASE error.status = 400 -> "Invalid request. Please check your input."
    [] error.status = 401 -> "Authentication required. Please login again."
    [] error.status = 403 -> "You do not have permission to perform this action."
    [] error.status = 404 -> "The requested resource was not found."
    [] error.status = 409 -> "This resource already exists."
    [] error.status = 422 -> "Validation failed. Please check your input."
    [] error.status = 500 -> "Internal server error. Please try again later."
    [] error.status = 502 -> "Bad gateway. Please try again later."
    [] error.status = 503 -> "Service temporarily unavailable. Please try again later."
    [] error.status = 504 -> "Gateway timeout. Please try again later."
    [] OTHER -> IF error.text # "" THEN error.text ELSE "An unexpected error occurred."

\* the switch on error.response?.status
statusFallback(error) ==
  CASE error.status = 400 -> "Invalid request. Please check your input."
    [] error.status = 401 -> "Authentication required. Please login again."
    [] error.status = 403 -> "You do not have permission to perform this action."
    [] error.status = 404 -> "The requested resource was not found."
    [] error.status = 409 -> "This resource already exists."
    [] error.status = 422 -> "Validation failed. Please check your input."
    [] error.status = 429 -> "Too many requests. Please try again later."
    [] error.status = 500 -> "Internal server error. Please try again later."
    [] error.status = 502 -> "Bad gateway. Please try again later."
    [] error.status = 503 -> "Service temporarily unavailable. Please try again later."
    [] error.status = 504 -> "Gateway timeout. Please try again later."
    [] OTHER -> IF error.text # "" THEN error.text ELSE "An unexpected error occurred."

\* extractErrorMessage looking at the `errors` array before the `message` field
extractErrorMessageErrorsFirst(error) ==
  IF error.isObj /\ error.errors.present /\ error.errors.isArray
     /\ Len(error.errors.items) > 0 /\ Truthy(error.errors.items[1])
    THEN error.errors.items[1][1]
  ELSE IF error.isObj /\ error.message # None
    THEN error.message[1]
  ELSE IF error.isObj /\ error.error # None
    THEN error.error[1]
  ELSE statusFallback(error)

extractErrorMessage(error) ==
  IF error.isObj /\ error.message # None
    THEN error.message[1]
  ELSE IF error.isObj /\ error.errors.present /\ error.errors.isArray
          /\ Len(error.errors.items) > 0 /\ Truthy(error.errors.items[1])
    THEN error.errors.items[1][1]
  ELSE IF error.isObj /\ error.error # None
    THEN error.error[1]
  ELSE statusFallback(error)

(***************************************************************************)
(* Side effects and their application                                      *)
(***************************************************************************)
removeItem(key) == [kind |-> "removeItem", key |-> key, val |-> None]
setItem(key, text) == [kind |-> "setItem", key |-> key, val |-> text]
setUser(o) == [kind |-> "setUser", key |-> "", val |-> o]
setIsLoading(b) == [kind |-> "setIsLoading", key |-> "", val |-> b]
setHref(path) == [kind |-> "navigate", key |-> path, val |-> None]
showToast(type, message) == [kind |-> "toast", key |-> type, val |-> message]

Cur == [lsToken |-> lsToken, lsUser |-> lsUser, user |-> user,
        isLoading |-> isLoading, nav |-> nav]

Apply(s, e) ==
  CASE e.kind = "removeItem" /\ e.key = "token" -> [s EXCEPT !.lsToken = None]
    [] e.kind = "removeItem" /\ e.key = "user" -> [s EXCEPT !.lsUser = None]
    [] e.kind = "setItem" /\ e.key = "token" -> [s EXCEPT !.lsToken = Some(e.val)]
    [] e.kind = "setItem" /\ e.key = "user" -> [s EXCEPT !.lsUser = Some(e.val)]
    [] e.kind = "setUser" -> [s EXCEPT !.user = e.val]
    [] e.kind = "setIsLoading" -> [s EXCEPT !.isLoading = e.val]
    [] e.kind = "navigate" -> [s EXCEPT !.nav = Some(e.key)]
    [] OTHER -> s

RECURSIVE ApplyAll(_, _)
ApplyAll(s, es) == IF es = <<>> THEN s ELSE ApplyAll(Apply(s, Head(es)), Tail(es))

Run(es) ==
  LET s == ApplyAll(Cur, es) IN
    /\ lsToken' = s.lsToken
    /\ lsUser' = s.lsUser
    /\ user' = s.user
    /\ isLoading' = s.isLoading
    /\ nav' = s.nav
    /\ effects' = es

RECURSIVE CountKind(_, _)
CountKind(es, k) ==
  IF es = <<>> THEN 0
  ELSE (IF Head(es).kind = k THEN 1 ELSE 0) + CountKind(Tail(es), k)

(***************************************************************************)
(* ApiService (src/services/api.ts)                                        *)
(***************************************************************************)
AuthMethods == {"login", "register", "verifyToken"}
ViewMethods == {"getContacts"}
ApiMethods == AuthMethods \cup ViewMethods

\* a request interceptor that attaches nothing
requestInterceptorNoHeader(token) == None

\* request interceptor: the Authorization header put on the request, given
\* localStorage.getItem('token')
requestInterceptor(token) ==
  IF token # None /\ token[1] # "" THEN <<"Bearer", token[1]>> ELSE None

\* a 401 branch that forgets the stored profile
responseInterceptorErrorKeepsUser(error) ==
  IF error.status = 401
    THEN << removeItem("token"), setHref(LoginPath),
            showToast("error", extractErrorMessage(error)) >>
    ELSE << showToast("error", extractErrorMessage(error)) >>

\* a 401 branch that surfaces the message before it navigates
responseInterceptorErrorToastFirst(error) ==
  IF error.status = 401
    THEN << removeItem("token"), removeItem("user"),
            showToast("error", extractErrorMessage(error)), setHref(LoginPath) >>
    ELSE << showToast("error", extractErrorMessage(error)) >>

\* a 401 branch that navigates only while a token is stored
responseInterceptorErrorOnceOnly(error) ==
  IF error.status = 401
    THEN << removeItem("token"), removeItem("user") >>
         \o (IF lsToken # None THEN << setHref(LoginPath) >> ELSE <<>>)
         \o << showToast("error", extractErrorMessage(error)) >>
    ELSE << showToast("error", extractErrorMessage(error)) >>

\* response interceptor, error handler
responseInterceptorError(error) ==
  IF error.status = 401
    THEN << removeItem("token"), removeItem("user"), setHref(LoginPath),
            showToast("error", extractErrorMessage(error)) >>
    ELSE << showToast("error", extractErrorMessage(error)) >>

\* the catch block every ApiService method has; the error is re-thrown
methodCatch(error) == << showToast("error", extractErrorMessage(error)) >>

\* what an ApiService method hands to its caller: `return response.data`
apiMethodOnResponse(data) == [threw |-> FALSE, value |-> data, effects |-> <<>>]

\* a method that throws an error of its own making
apiMethodOnErrorWraps(error) ==
  [threw |-> TRUE, value |-> [error EXCEPT !.text = "Request failed"],
   effects |-> methodCatch(error)]

\* ... and `throw error` after the catch block's notification
apiMethodOnError(error) ==
  [threw |-> TRUE, value |-> error, effects |-> methodCatch(error)]

(***************************************************************************)
(* AuthProvider (src/contexts/AuthContext.tsx) and the views               *)
(***************************************************************************)
\* response.message || fallback
OrElse(o, fallback) == IF Truthy(o) THEN o[1] ELSE fallback

\* error.response?.data?.message || fallback
DataMessageOr(error, fallback) ==
  IF error.isObj /\ Truthy(error.message) THEN error.message[1] ELSE fallback

\* a login / register that stores the session before it looks at success
signInResolvedStoresAnyway(body, okText, failText) ==
  << setItem("token", body.token), setItem("user", JSONstringify(body.user)),
     setUser(Some(body.user)) >>
  \o (IF body.success
        THEN << showToast("success", okText) >>
        ELSE << showToast("error", OrElse(body.message, failText)) >>)

\* login / register after apiService.login / register returned `body`
signInResolved(body, okText, failText) ==
  IF body.success
    THEN << setItem("token", body.token), setItem("user", JSONstringify(body.user)),
            setUser(Some(body.user)), showToast("success", okText) >>
    ELSE << showToast("error", OrElse(body.message, failText)) >>

loginResolved(body) == signInResolved(body, "Login successful!", "Login failed")
loginRejected(error) == << showToast("error", DataMessageOr(error, "Login failed")) >>

registerResolved(body) ==
  signInResolved(body, "Registration successful!", "Registration failed")
registerRejected(error) ==
  << showToast("error", DataMessageOr(error, "Registration failed")) >>

\* a verification that keeps the optimistically loaded session on success = false
verifyResolvedKeepsSession(body) ==
  (IF body.success THEN << setUser(Some(body.user)) >> ELSE <<>>)
  \o << setIsLoading(FALSE) >>

\* initializeAuth after apiService.verifyToken returned `body`, with its finally
verifyResolved(body) ==
  (IF body.success
     THEN << setUser(Some(body.user)) >>
     ELSE << removeItem("token"), removeItem("user"), setUser(None) >>)
  \o << setIsLoading(FALSE) >>

\* a catch branch that is not followed by the finally block
verifyRejectedNoFinally(error) ==
  << removeItem("token"), removeItem("user"), setUser(None) >>

\* initializeAuth after apiService.verifyToken threw, with its finally
verifyRejected(error) ==
  << removeItem("token"), removeItem("user"), setUser(None), setIsLoading(FALSE) >>

logoutEffects ==
  << removeItem("token"), removeItem("user"), setUser(None),
     showToast("success", "Logged out successfully") >>

\* an updateUser that does not persist the profile
updateUserEffectsStateOnly(updatedUser) == << setUser(Some(updatedUser)) >>

updateUserEffects(updatedUser) ==
  << setUser(Some(updatedUser)), setItem("user", JSONstringify(updatedUser)) >>

\* what the caller of an ApiService method does with its result
callerResolved(method, body) ==
  CASE method = "login" -> loginResolved(body)
    [] method = "register" -> registerResolved(body)
    [] method = "verifyToken" -> verifyResolved(body)
    [] OTHER -> <<>>

\* what the caller of an ApiService method does with the re-thrown error
callerRejected(method, error) ==
  CASE method = "login" -> loginRejected(error)
    [] method = "register" -> registerRejected(error)
    [] method = "verifyToken" -> verifyRejected(error)
    [] method = "getContacts" -> << showToast("error", "Failed to load contacts") >>
    [] OTHER -> <<>>

\* the caller's continuation of what the method handed over
callerTask(method, o) ==
  IF o.threw THEN callerRejected(method, o.value) ELSE callerResolved(method, o.value)

\* the boolean login / register return to the view; the other callers
\* return nothing
callerReturns(method, o) ==
  IF method \in {"login", "register"}
    THEN Some(IF o.threw THEN FALSE ELSE o.value.success)
    ELSE None

\* the effects that precede the caller's continuation, for an error response
beforeCallerRejected(error) ==
  responseInterceptorError(error) \o apiMethodOnError(error).effects

\* the whole task run by a 2xx response: method, caller
resolvedTask(method, data) ==
  apiMethodOnResponse(data).effects \o callerTask(method, apiMethodOnResponse(data))

\* the whole task run by an error response: interceptor, method, caller
rejectedTask(method, error) ==
  beforeCallerRejected(error) \o callerTask(method, apiMethodOnError(error))

isAuthenticated == user # None

(***************************************************************************)
(* Inputs                                                                  *)
(***************************************************************************)
mkError(status, isObj, message, errors, error, text) ==
  [status |-> status, isObj |-> isObj, message |-> message, errors |-> errors,
   error |-> error, text |-> text]

SessionErrors ==
  { mkError(401, TRUE, Some("Invalid token"), NoErrors, None, "Request failed with status code 401"),
    mkError(500, TRUE, None, NoErrors, Some("boom"), "Request failed with status code 500"),
    mkError(0, FALSE, None, NoErrors, None, "Network Error") }

\* { success, message?, data: { user, token } }; isObj: the body is a JSON object
mkBody(success, message, u, t) ==
  [success |-> success, message |-> message, user |-> u, token |-> t, isObj |-> TRUE]
ViewBody == mkBody(TRUE, None, [id |-> "u1", name |-> "ann"], "t1")
AuthBodies ==
  { mkBody(TRUE, None, p, t) : p \in Profiles, t \in Tokens }
  \cup { mkBody(FALSE, m, ViewBody.user, ViewBody.token) :
           m \in {None, Some("Invalid credentials")} }
\* verifyToken's body carries no token
VerifyBodies == { b \in AuthBodies : b.token = ViewBody.token }
\* a 2xx response whose body is not the expected object (text, HTML): every
\* property read from it is undefined
MalformedBody == [mkBody(FALSE, None, ViewBody.user, ViewBody.token) EXCEPT !.isObj = FALSE]
Bodies(method) ==
  (CASE method \in {"login", "register"} -> AuthBodies
     [] method = "verifyToken" -> VerifyBodies
     [] OTHER -> {ViewBody}) \cup {MalformedBody}

Task(op, method, status, success, arg) ==
  [op |-> op, method |-> method, status |-> status, success |-> success, arg |-> arg]

\* what a response task records: the response or error received, what the
\* method handed to its caller, how many effects came before the caller's, and
\* the navigation requested and the requests in flight when the task began
Outcome(method, received, o, before) ==
  Some([received |-> received, threw |-> o.threw, value |-> o.value,
        before |-> before, navBefore |-> nav,
        pendingBefore |-> BagCardinality(pending),
        returned |-> callerReturns(method, o)])

\* what a task that calls an ApiService method records
Sent == Some([pendingBefore |-> BagCardinality(pending)])

(***************************************************************************)
(* Session specification                                                   *)
(***************************************************************************)
InitStorage ==
  { <<None, None>> }
  \cup { <<Some(t), Some(JSONstringify(p))>> : t \in Tokens, p \in Profiles }
  \cup { <<Some(t), Some(CorruptText)>> : t \in Tokens }

DefaultError == mkError(0, FALSE, None, NoErrors, None, "")

\* the variables of a part that a specification does not exercise
SessionIdle ==
  /\ lsToken = None
  /\ lsUser = None
  /\ user = None
  /\ isLoading = TRUE
  /\ initPc = "start"
  /\ pending = EmptyBag
  /\ location = "/"
  /\ nav = None
  /\ effects = <<>>
  /\ last = Task("boot", "", 0, FALSE, None)

ExtractIdle == errIn = DefaultError /\ errOut = None

UrlIdle == urlFn = "" /\ urlIn = <<>> /\ urlOut = None /\ urlAgain = None

BestIdle ==
  /\ media = [thumbnailUrl |-> None, fileUrl |-> <<>>, externalUrl |-> None]
  /\ bestOut = None

ImageIdle ==
  /\ imgView = "page"
  /\ imgPath = <<>>
  /\ imgSrc = <<>>
  /\ imgHidden = FALSE
  /\ imageLoadAttempts = 0
  /\ imgLog = <<>>

\* the Contacts view as mounted
ContactsIdle ==
  /\ currentPage = 1
  /\ totalPages = 1
  /\ statusFilter = "all"
  /\ searchTerm = ""
  /\ contacts = {}
  /\ selectedContacts = {}
  /\ contactsLoading = TRUE
  /\ calls = EmptyBag
  /\ shown = "pending"

GridIdle ==
  /\ gridItem = [thumbnailUrl |-> None, fileUrl |-> <<>>, externalUrl |-> None]
  /\ gridSrc = <<>>
  /\ imageLoadingStates = None
  /\ gridLog = <<>>

\* the NoticeBanner as mounted
BannerIdle ==
  /\ notice = None
  /\ isVisible = TRUE
  /\ bannerLoading = TRUE
  /\ bannerPc = "mount"
  /\ bannerGot = None

Init ==
  /\ \E st \in InitStorage : lsToken = st[1] /\ lsUser = st[2]
  /\ user = None
  /\ isLoading = TRUE
  /\ initPc = "start"
  /\ pending = EmptyBag
  /\ location = "/"
  /\ nav = None
  /\ effects = <<>>
  /\ last = Task("boot", "", 0, FALSE, None)
  /\ ExtractIdle
  /\ UrlIdle
  /\ BestIdle
  /\ ImageIdle
  /\ ContactsIdle
  /\ GridIdle
  /\ BannerIdle

Request(method, auth) == [method |-> method, auth |-> auth]

\* this.api.get / post / put: the request interceptor runs, the request leaves
Send(method) ==
  pending' = pending (+) SetToBag({ Request(method, requestInterceptor(lsToken)) })

\* useEffect at mount
initializeAuth ==
  /\ initPc = "start"
  /\ IF Truthy(lsToken) /\ lsUser # None /\ lsUser[1] # <<>>
       THEN IF JSONparses(lsUser[1])
              THEN /\ Run(<< setUser(Some(JSONparse(lsUser[1]))) >>)
                   /\ Send("verifyToken")
                   /\ initPc' = "verifying"
              ELSE /\ Run(<< setIsLoading(FALSE) >>)
                   /\ initPc' = "done"
                   /\ UNCHANGED pending
       ELSE /\ Run(<< setIsLoading(FALSE) >>)
            /\ initPc' = "done"
            /\ UNCHANGED pending
  /\ last' = Task("initializeAuth", "", 0, FALSE, None)
  /\ UNCHANGED <<location, otherVars>>

CanSend == initPc # "start" /\ BagCardinality(pending) < MaxPending

login ==
  /\ CanSend
  /\ Send("login")
  /\ Run(<<>>)
  /\ last' = Task("send", "login", 0, FALSE, Sent)
  /\ UNCHANGED <<initPc, location, otherVars>>

register ==
  /\ CanSend
  /\ Send("register")
  /\ Run(<<>>)
  /\ last' = Task("send", "register", 0, FALSE, Sent)
  /\ UNCHANGED <<initPc, location, otherVars>>

viewCall ==
  /\ CanSend
  /\ \E m \in ViewMethods :
       /\ Send(m)
       /\ last' = Task("send", m, 0, FALSE, Sent)
  /\ Run(<<>>)
  /\ UNCHANGED <<initPc, location, otherVars>>

\* a 2xx response arrives: the method returns response.data to its caller
resolve ==
  \E r \in BagToSet(pending) : \E body \in Bodies(r.method) :
    /\ Run(resolvedTask(r.method, body))
    /\ pending' = pending (-) SetToBag({r})
    /\ initPc' = IF r.method = "verifyToken" THEN "done" ELSE initPc
    /\ last' = Task("resolved", r.method, 200, body.success,
                    Outcome(r.method, body, apiMethodOnResponse(body),
                            Len(apiMethodOnResponse(body).effects)))
    /\ UNCHANGED <<location, otherVars>>

\* an error response, a timeout or a network failure arrives
reject ==
  \E r \in BagToSet(pending) : \E error \in SessionErrors :
    /\ Run(rejectedTask(r.method, error))
    /\ pending' = pending (-) SetToBag({r})
    /\ initPc' = IF r.method = "verifyToken" THEN "done" ELSE initPc
    /\ last' = Task("rejected", r.method, error.status, FALSE,
                    Outcome(r.method, error, apiMethodOnError(error),
                            Len(beforeCallerRejected(error))))
    /\ UNCHANGED <<location, otherVars>>

logout ==
  /\ initPc # "start"
  /\ Run(logoutEffects)
  /\ last' = Task("logout", "", 0, FALSE, None)
  /\ UNCHANGED <<initPc, pending, location, otherVars>>

updateUser ==
  /\ initPc # "start"
  /\ \E p \in Profiles :
       /\ Run(updateUserEffects(p))
       /\ last' = Task("updateUser", "", 0, FALSE, Some(p))
  /\ UNCHANGED <<initPc, pending, location, otherVars>>

\* the document is loaded anew (a requested navigation is carried out, or the
\* user reloads): storage survives, component state and open requests do not
reload ==
  /\ initPc # "start"
  /\ user' = None
  /\ isLoading' = TRUE
  /\ initPc' = "start"
  /\ pending' = EmptyBag
  /\ location' = IF nav # None THEN nav[1] ELSE location
  /\ nav' = None
  /\ effects' = <<>>
  /\ last' = Task("reload", "", 0, FALSE, None)
  /\ UNCHANGED <<lsToken, lsUser, otherVars>>

Next ==
  \/ initializeAuth
  \/ login
  \/ register
  \/ viewCall
  \/ resolve
  \/ reject
  \/ logout
  \/ updateUser
  \/ reload

Spec == Init /\ [][Next]_vars

(***************************************************************************)
(* Startup specification: one document from mount on, with whatever the    *)
(* two storage keys hold, up to the navigation that ends it                *)
(***************************************************************************)
StartupStorage ==
  InitStorage
  \cup { <<Some(t), None>> : t \in Tokens }
  \cup { <<None, Some(JSONstringify(p))>> : p \in Profiles }

InitStartup ==
  /\ \E st \in StartupStorage : lsToken = st[1] /\ lsUser = st[2]
  /\ user = None
  /\ isLoading = TRUE
  /\ initPc = "start"
  /\ pending = EmptyBag
  /\ location = "/"
  /\ nav = None
  /\ effects = <<>>
  /\ last = Task("boot", "", 0, FALSE, None)
  /\ ExtractIdle
  /\ UrlIdle
  /\ BestIdle
  /\ ImageIdle
  /\ ContactsIdle
  /\ GridIdle
  /\ BannerIdle

NextStartup ==
  \/ initializeAuth
  \/ viewCall
  \/ resolve
  \/ reject
  \/ logout
  \/ updateUser

\* the verification request is answered
verifyAnswered == initPc = "verifying" /\ (resolve \/ reject) /\ initPc' = "done"

\* the effect runs at mount; the verification request is answered or times
\* out (axios timeout: 10000), whatever else is in flight
SpecStartup ==
  /\ InitStartup
  /\ [][NextStartup]_vars
  /\ WF_vars(initializeAuth)
  /\ WF_vars(verifyAnswered)

(***************************************************************************)
(* Extraction specification: extractErrorMessage applied to one error      *)
(***************************************************************************)
TableStatuses == {400, 401, 403, 404, 409, 422, 429, 500, 502, 503, 504}
OtherStatuses == {418}
TransportTexts == {"", "Network Error"}
EntryMessages == {None, Some(""), Some("E1"), Some("E2")}

RECURSIVE SeqsUpTo(_, _)
SeqsUpTo(S, n) ==
  IF n = 0 THEN { <<>> }
  ELSE LET shorter == SeqsUpTo(S, n - 1) IN
         shorter \cup { Append(q, x) : q \in { t \in shorter : Len(t) = n - 1 }, x \in S }

ErrorsFields ==
  { NoErrors, NotArrayErrors } \cup { ArrayErrors(q) : q \in SeqsUpTo(EntryMessages, MaxErrors) }

ErrorInputs ==
  { mkError(st, TRUE, m, es, e, t) :
      st \in TableStatuses \cup OtherStatuses, m \in {None, Some(""), Some("M")},
      es \in ErrorsFields, e \in {None, Some(""), Some("Err")}, t \in TransportTexts }
  \cup { mkError(st, FALSE, None, NoErrors, None, t) :
      st \in TableStatuses \cup OtherStatuses \cup {0}, t \in TransportTexts }

InitExtract ==
  /\ SessionIdle
  /\ errIn \in ErrorInputs
  /\ errOut = None
  /\ UrlIdle
  /\ BestIdle
  /\ ImageIdle
  /\ ContactsIdle
  /\ GridIdle
  /\ BannerIdle

extract ==
  /\ errOut = None
  /\ errOut' = Some(extractErrorMessage(errIn))
  /\ UNCHANGED <<errIn, sessionVars, viewVars, urlVars, bestVars, imageVars>>

NextExtract == extract

SpecExtract == InitExtract /\ [][NextExtract]_vars

(***************************************************************************)
(* Properties                                                              *)
(***************************************************************************)
AuthHeaders == {None} \cup { <<"Bearer", t>> : t \in Tokens }

\* the latest task handled an error response with status 401
After401 == last.op = "rejected" /\ last.status = 401
\* the latest task handled a failed call
AfterFailure == last.op = "rejected"
\* the latest task was a login or register that stored the session
AfterSignIn ==
  last.op = "resolved" /\ last.method \in {"login", "register"} /\ last.success

\* C1: after a response with status 401, whatever the endpoint, the stored
\* token and the stored profile are both absent and the task has requested
\* exactly one navigation, to the login path.
C1_Clears401 ==
  After401 =>
    /\ lsToken = None
    /\ lsUser = None
    /\ CountKind(effects, "navigate") = 1
    /\ nav = Some(LoginPath)

C1_Witness ==
  /\ After401
  /\ last.method = "getContacts"
  /\ user # None
  /\ lsToken = None /\ lsUser = None

\* C2: every failed API call produces exactly one notification.
C2_OneNotification ==
  AfterFailure => CountKind(effects, "toast") = 1

\* C3: outside the startup verification window the stored token and the
\* stored profile are both present or both absent.
C3_TokenAndUserTogether ==
  initPc = "done" => ((lsToken = None) <=> (lsUser = None))

\* C4: when the startup verification fails (verifyToken throws, or returns
\* success = false), the session ends cleared: no stored token, no stored
\* profile, no active user.
C4_FailedVerificationClears ==
  (last.method = "verifyToken"
   /\ (last.op = "rejected" \/ (last.op = "resolved" /\ ~last.success)))
  => (lsToken = None /\ lsUser = None /\ user = None)

C4_Witness ==
  /\ last.method = "verifyToken" /\ last.op = "resolved" /\ ~last.success
  /\ initPc = "done" /\ ~isLoading
  /\ lsToken = None /\ lsUser = None /\ user = None

\* C5: isAuthenticated is true right after a login or register stored the
\* session, and false right after the session was cleared (logout, or a 401).
C5_AuthenticatedFollowsSession ==
  /\ AfterSignIn => isAuthenticated
  /\ (last.op = "logout" \/ After401) => ~isAuthenticated

\* C6: a request that is issued carries `Bearer <token>` with the token that
\* storage holds at that moment, and no Authorization header when storage
\* holds none.
C6_BearerFromStorage ==
  [][ \A m \in ApiMethods : \A a \in AuthHeaders :
        CopiesIn(Request(m, a), pending') > CopiesIn(Request(m, a), pending)
        => a = (IF lsToken = None THEN None ELSE <<"Bearer", lsToken[1]>>) ]_vars

C6_Witness ==
  /\ BagIn(Request("getContacts", None), pending)
  /\ BagIn(Request("getContacts", <<"Bearer", "t2">>), pending)

\* C7: a body that is an object containing `message` yields that message,
\* for every status and whatever `errors` and `error` hold.
C7_MessageVerbatim ==
  (errOut # None /\ errIn.isObj /\ errIn.message # None)
  => errOut[1] = errIn.message[1]

C7_Witness ==
  /\ errOut = Some("M")
  /\ errIn.status = 404
  /\ errIn.errors.isArray /\ Len(errIn.errors.items) > 0
  /\ Truthy(errIn.errors.items[1])
  /\ errIn.error # None

\* the entries of an `errors` array that expose a message
Exposing(items) == { i \in 1..Len(items) : Truthy(items[i]) }
FirstExposing(items) == CHOOSE i \in Exposing(items) : \A j \in Exposing(items) : i <= j

\* C8: without a top-level `message`, an `errors` array with an entry that
\* exposes a message yields the message of the first such entry, also when
\* an earlier entry exposes none.
C8_FirstExposedMessage ==
  (errOut # None /\ errIn.isObj /\ errIn.message = None
   /\ errIn.errors.isArray /\ Exposing(errIn.errors.items) # {})
  => errOut[1] = errIn.errors.items[FirstExposing(errIn.errors.items)][1]

\* the fixed string of a status, as the table of the specification lists it
FixedMessage(status) ==
  CASE status = 400 -> "Invalid request. Please check your input."
    [] status = 401 -> "Authentication required. Please login again."
    [] status = 403 -> "You do not have permission to perform this action."
    [] status = 404 -> "The requested resource was not found."
    [] status = 409 -> "This resource already exists."
    [] status = 422 -> "Validation failed. Please check your input."
    [] status = 429 -> "Too many requests. Please try again later."
    [] status = 500 -> "Internal server error. Please try again later."
    [] status = 502 -> "Bad gateway. Please try again later."
    [] status = 503 -> "Service temporarily unavailable. Please try again later."
    [] status = 504 -> "Gateway timeout. Please try again later."

\* no `message` field, and the `errors` field gives no message
NoMessageNoErrors ==
  /\ ~(errIn.isObj /\ errIn.message # None)
  /\ ~(errIn.isObj /\ errIn.errors.isArray /\ Len(errIn.errors.items) > 0
       /\ Truthy(errIn.errors.items[1]))

\* C9: when neither `message` nor the `errors` array gives a message, an
\* `error` field is used verbatim; without one the result is the fixed
\* string of the status, and for a status outside the table, or none, the
\* transport's text, or the generic text when that is empty.
C9_Tail ==
  (errOut # None /\ NoMessageNoErrors)
  => errOut[1] =
       (IF errIn.isObj /\ errIn.error # None THEN errIn.error[1]
        ELSE IF errIn.status \in TableStatuses THEN FixedMessage(errIn.status)
        ELSE IF errIn.text # "" THEN errIn.text
        ELSE "An unexpected error occurred.")

C9_Witness ==
  /\ errOut = Some("Too many requests. Please try again later.")
  /\ errIn.status = 429
  /\ errIn.isObj /\ errIn.message = None /\ errIn.error = None
  /\ errIn.errors.isArray /\ Len(errIn.errors.items) = 2
  /\ errIn.errors.items[1] = None

\* C10: updateUser(profile) makes the given profile the active profile and
\* the stored profile, and leaves the stored token as it was.
C10_UpdateUserFrame ==
  [][ last'.op = "updateUser"
      => /\ user' = last'.arg
         /\ lsUser' = Some(JSONstringify(last'.arg[1]))
         /\ lsToken' = lsToken ]_vars

C10_Witness ==
  /\ last.op = "updateUser"
  /\ lsToken = Some("t1")
  /\ user = Some([id |-> "u1", name |-> "bob"])
  /\ lsUser = Some(JSONstringify([id |-> "u1", name |-> "bob"]))

(***************************************************************************)
(* Strings of URLs.  A string is a sequence of lexemes, each lexeme a      *)
(* piece of text that the URL functions never split; no lexeme is a        *)
(* concatenation of others, so two strings are equal exactly when their    *)
(* lexeme sequences are.                                                   *)
(***************************************************************************)
MaxUrlLen == 4

Lexemes == {"/", "\\", "x", "..", "http:", "HTTPS:"}
UrlInputs == SeqsUpTo(Lexemes, MaxUrlLen)

BASE_URL == <<"https:", "/", "/", "api", ".mahasamvit.com", "/", "api">>

\* String.prototype.toLowerCase on a lexeme
Lower(l) == IF l = "HTTPS:" THEN "https:" ELSE l
IsSlash(l) == l \in {"/", "\\"}
\* the lexeme is `http:` or `https:` in any case
IsScheme(l) == Lower(l) \in {"http:", "https:"}

\* the test for an absolute URL without the `i` flag
IsAbsoluteHttpCaseSensitive(s) ==
  Len(s) >= 3 /\ s[1] \in {"http:", "https:"} /\ s[2] = "/" /\ s[3] = "/"

\* /^https?:\/\//i.test(s)
IsAbsoluteHttp(s) ==
  Len(s) >= 3 /\ IsScheme(s[1]) /\ s[2] = "/" /\ s[3] = "/"

\* s.startsWith('/')
StartsWithSlash(s) == Len(s) >= 1 /\ s[1] = "/"
\* s.startsWith('http')
StartsWithHttp(s) == Len(s) >= 1 /\ s[1] \in {"http:", "https:"}

RECURSIVE DropSlashes(_)
DropSlashes(r) == IF r # <<>> /\ IsSlash(r[1]) THEN DropSlashes(Tail(r)) ELSE r

\* the text before the first slash or backslash, and the text from it on
RECURSIVE UpToSlash(_)
UpToSlash(r) ==
  IF r = <<>> \/ IsSlash(r[1]) THEN <<>> ELSE <<r[1]>> \o UpToSlash(Tail(r))
RECURSIVE FromSlash(_)
FromSlash(r) == IF r = <<>> \/ IsSlash(r[1]) THEN r ELSE FromSlash(Tail(r))

(***************************************************************************)
(* new URL(input, base) of the platform, for the special schemes http and  *)
(* https and for inputs that begin with a scheme or a slash: scheme, host  *)
(* and path segments; backslashes count as slashes, `..` segments are      *)
(* resolved, a run of slashes after the scheme or at the start of a        *)
(* relative input introduces a host.                                       *)
(***************************************************************************)
UrlFailure == [ok |-> FALSE, scheme |-> "", host |-> <<>>, path |-> <<>>]
Url(scheme, host, path) == [ok |-> TRUE, scheme |-> scheme, host |-> host, path |-> path]

\* r is empty or begins with a slash: the texts between the slashes
RECURSIVE RawSegments(_)
RawSegments(r) ==
  IF r = <<>> THEN <<>>
  ELSE <<UpToSlash(Tail(r))>> \o RawSegments(FromSlash(Tail(r)))

Shorten(path) == IF path = <<>> THEN path ELSE SubSeq(path, 1, Len(path) - 1)

RECURSIVE PathState(_, _)
PathState(path, segs) ==
  IF segs = <<>> THEN path
  ELSE IF Head(segs) = <<"..">>
    THEN PathState(Shorten(path) \o (IF Len(segs) = 1 THEN << <<>> >> ELSE <<>>), Tail(segs))
    ELSE PathState(Append(path, Head(segs)), Tail(segs))

PathOf(path, r) == IF r = <<>> /\ path = <<>> THEN << <<>> >> ELSE PathState(path, RawSegments(r))

\* a host ends at `:`; what follows the colon must be a port number
HostLexeme(l) == CASE l = "http:" -> "http" [] l = "HTTPS:" -> "https" [] OTHER -> l
HostOk(h) == h # <<>> /\ \A i \in 1..Len(h) : IsScheme(h[i]) => i = Len(h)
HostOf(h) == [i \in 1..Len(h) |-> HostLexeme(h[i])]

\* r is what follows the slashes that introduce the host
Authority(scheme, r) ==
  IF HostOk(UpToSlash(r))
    THEN Url(scheme, HostOf(UpToSlash(r)), PathOf(<<>>, FromSlash(r)))
    ELSE UrlFailure

Relative(r, base) ==
  IF r = <<>> THEN base
  ELSE IF IsSlash(r[1])
    THEN IF Len(r) >= 2 /\ IsSlash(r[2])
           THEN Authority(base.scheme, DropSlashes(r))
           ELSE Url(base.scheme, base.host, PathOf(<<>>, r))
    ELSE Url(base.scheme, base.host, PathOf(Shorten(base.path), <<"/">> \o r))

\* base is None or <<a parsed URL>>
URLparse(input, base) ==
  IF input # <<>> /\ IsScheme(input[1])
    THEN IF base # None /\ base[1].scheme = Lower(input[1])
            /\ ~(Len(input) >= 3 /\ input[2] = "/" /\ input[3] = "/")
           THEN Relative(Tail(input), base[1])
           ELSE Authority(Lower(input[1]), DropSlashes(Tail(input)))
  ELSE IF base = None THEN UrlFailure
  ELSE Relative(input, base[1])

RECURSIVE PathText(_)
PathText(path) ==
  IF path = <<>> THEN <<>> ELSE <<"/">> \o Head(path) \o PathText(Tail(path))

\* URL.prototype.toString
UrlToString(u) == <<u.scheme, "/", "/">> \o u.host \o PathText(u.path)

(***************************************************************************)
(* URL Resolver (src/services/api.ts)                                      *)
(***************************************************************************)
\* BASE_URL.replace(/\/api\/?$/, '')
StripTrailingApi(s) ==
  IF Len(s) >= 3 /\ SubSeq(s, Len(s) - 2, Len(s)) = <<"/", "api", "/">>
    THEN SubSeq(s, 1, Len(s) - 3)
  ELSE IF Len(s) >= 2 /\ SubSeq(s, Len(s) - 1, Len(s)) = <<"/", "api">>
    THEN SubSeq(s, 1, Len(s) - 2)
  ELSE s

\* the origin of BASE_URL: `${u.protocol}//${u.host}`
apiOrigin ==
  LET u == URLparse(BASE_URL, None) IN
    IF u.ok THEN <<u.scheme, "/", "/">> \o u.host ELSE StripTrailingApi(BASE_URL)

\* the join of getMediaUrl and getNoticeImageUrl: new URL(normalizedPath, apiOrigin),
\* and plain concatenation when it throws
joinToOrigin(path) ==
  LET normalizedPath == IF StartsWithSlash(path) THEN path ELSE <<"/">> \o path
      u == URLparse(normalizedPath, Some(URLparse(apiOrigin, None)))
  IN IF u.ok THEN UrlToString(u)
     ELSE apiOrigin \o (IF StartsWithSlash(path) THEN <<>> ELSE <<"/">>) \o path

\* a getMediaUrl that joins whatever it is given
getMediaUrlAlwaysJoins(fileUrl) ==
  IF fileUrl = <<>> THEN <<>> ELSE joinToOrigin(fileUrl)

getMediaUrl(fileUrl) ==
  IF fileUrl = <<>> THEN <<>>
  ELSE IF IsAbsoluteHttp(fileUrl) THEN fileUrl
  ELSE joinToOrigin(fileUrl)

getNoticeImageUrl(imagePath) ==
  IF imagePath = <<>> THEN <<>>
  ELSE IF IsAbsoluteHttp(imagePath) THEN imagePath
  ELSE joinToOrigin(imagePath)

\* s.replace(pattern, replacement) with a string pattern: the first occurrence only
RECURSIVE ReplaceFirst(_, _, _)
ReplaceFirst(s, pattern, replacement) ==
  IF Len(s) < Len(pattern) THEN s
  ELSE IF SubSeq(s, 1, Len(pattern)) = pattern
    THEN replacement \o SubSeq(s, Len(pattern) + 1, Len(s))
  ELSE <<Head(s)>> \o ReplaceFirst(Tail(s), pattern, replacement)

EncodeLexeme(l) ==
  CASE l = "/" -> "%2F"
    [] l = "\\" -> "%5C"
    [] l = "http:" -> "http%3A"
    [] l = "HTTPS:" -> "HTTPS%3A"
    [] OTHER -> l
encodeURIComponent(s) == [i \in 1..Len(s) |-> EncodeLexeme(s[i])]

ProxyPath == <<"/", "api", "/", "notice", "/", "image", "?path=">>

getNoticeImageUrlWithFallback(imagePath) ==
  LET directUrl == getNoticeImageUrl(imagePath) IN
    IF imagePath # <<>> /\ ~StartsWithHttp(imagePath)
      THEN ReplaceFirst(BASE_URL, <<"/", "api">>, <<>>) \o ProxyPath
           \o encodeURIComponent(imagePath)
      ELSE directUrl

\* JavaScript truthiness of an optional string of lexemes
TruthyText(o) == o # None /\ o[1] # <<>>

\* a getBestImageUrl that prefers fileUrl to thumbnailUrl
getBestImageUrlFileFirst(m) ==
  IF m.fileUrl # <<>> THEN getMediaUrl(m.fileUrl)
  ELSE IF TruthyText(m.thumbnailUrl) THEN getMediaUrl(m.thumbnailUrl[1])
  ELSE IF TruthyText(m.externalUrl) THEN m.externalUrl[1]
  ELSE <<>>

getBestImageUrl(m) ==
  IF TruthyText(m.thumbnailUrl) THEN getMediaUrl(m.thumbnailUrl[1])
  ELSE IF m.fileUrl # <<>> THEN getMediaUrl(m.fileUrl)
  ELSE IF TruthyText(m.externalUrl) THEN m.externalUrl[1]
  ELSE <<>>

(***************************************************************************)
(* The URL Resolver as pure functions: one call per behaviour              *)
(***************************************************************************)
InitUrl ==
  /\ SessionIdle
  /\ ExtractIdle
  /\ BestIdle
  /\ ImageIdle
  /\ urlIn \in UrlInputs
  /\ urlFn = ""
  /\ urlOut = None
  /\ urlAgain = None
  /\ ContactsIdle
  /\ GridIdle
  /\ BannerIdle

callGetMediaUrl ==
  /\ urlFn = ""
  /\ urlFn' = "getMediaUrl"
  /\ urlOut' = Some(getMediaUrl(urlIn))
  /\ UNCHANGED <<urlIn, urlAgain, sessionVars, viewVars, extractVars, bestVars, imageVars>>

callGetNoticeImageUrl ==
  /\ urlFn = ""
  /\ urlFn' = "getNoticeImageUrl"
  /\ urlOut' = Some(getNoticeImageUrl(urlIn))
  /\ UNCHANGED <<urlIn, urlAgain, sessionVars, viewVars, extractVars, bestVars, imageVars>>

callGetNoticeImageUrlWithFallback ==
  /\ urlFn = ""
  /\ urlFn' = "getNoticeImageUrlWithFallback"
  /\ urlOut' = Some(getNoticeImageUrlWithFallback(urlIn))
  /\ UNCHANGED <<urlIn, urlAgain, sessionVars, viewVars, extractVars, bestVars, imageVars>>

\* getMediaUrl applied to its own result
resolveAgain ==
  /\ urlFn = "getMediaUrl"
  /\ urlAgain = None
  /\ urlAgain' = Some(getMediaUrl(urlOut[1]))
  /\ UNCHANGED <<urlFn, urlIn, urlOut, sessionVars, viewVars, extractVars, bestVars, imageVars>>

NextUrl ==
  \/ callGetMediaUrl
  \/ callGetNoticeImageUrl
  \/ callGetNoticeImageUrlWithFallback
  \/ resolveAgain

SpecUrl == InitUrl /\ [][NextUrl]_vars

\* the values a media record's URL fields take
MediaTexts ==
  { <<>>, <<"x">>, <<"/", "x">>, <<"/", "/", "x">>, <<"HTTPS:", "/", "/", "x">> }
OptionalTexts == {None} \cup { Some(t) : t \in MediaTexts }
MediaInputs ==
  [thumbnailUrl : OptionalTexts, fileUrl : MediaTexts, externalUrl : OptionalTexts]

InitBest ==
  /\ SessionIdle
  /\ ExtractIdle
  /\ UrlIdle
  /\ ImageIdle
  /\ media \in MediaInputs
  /\ bestOut = None
  /\ ContactsIdle
  /\ GridIdle
  /\ BannerIdle

callGetBestImageUrl ==
  /\ bestOut = None
  /\ bestOut' = Some(getBestImageUrl(media))
  /\ UNCHANGED <<media, sessionVars, viewVars, extractVars, urlVars, imageVars>>

NextBest == callGetBestImageUrl

SpecBest == InitBest /\ [][NextBest]_vars

(***************************************************************************)
(* Properties of the URL Resolver                                          *)
(***************************************************************************)
\* the input begins with http:// or https://, in any letter case
MatchesHttpPrefix(s) ==
  Len(s) >= 3 /\ s[1] \in {"http:", "https:", "HTTPS:"} /\ s[2] = "/" /\ s[3] = "/"

Resolvers == {"getMediaUrl", "getNoticeImageUrl"}

\* C11: for every input that matches an absolute http:// or https:// URL,
\* getMediaUrl and getNoticeImageUrl return the input unchanged.
C11_AbsoluteUnchanged ==
  (urlFn \in Resolvers /\ MatchesHttpPrefix(urlIn)) => urlOut = Some(urlIn)

C11_Witness ==
  /\ urlFn = "getNoticeImageUrl"
  /\ urlIn = <<"HTTPS:", "/", "/", "x">>
  /\ urlOut = Some(urlIn)

\* C12: for every relative input p whose first resolution is an absolute URL,
\* getMediaUrl(getMediaUrl(p)) equals getMediaUrl(p).
C12_ResolveIdempotent ==
  ( /\ urlFn = "getMediaUrl"
    /\ urlAgain # None
    /\ ~MatchesHttpPrefix(urlIn)
    /\ MatchesHttpPrefix(urlOut[1]) ) => urlAgain = urlOut

C12_Witness ==
  /\ urlFn = "getMediaUrl"
  /\ urlIn = <<"/", "x", "/", "x">>
  /\ urlOut = Some(apiOrigin \o <<"/", "x", "/", "x">>)
  /\ urlAgain = urlOut

\* no two adjacent slashes after the two that follow the scheme
NoDoubledSlash(s) ==
  \A i \in 4..(Len(s) - 1) : ~(s[i] = "/" /\ s[i + 1] = "/")

\* the input without the '/' characters it starts with
RECURSIVE StripLeading(_)
StripLeading(s) ==
  IF s # <<>> /\ Head(s) = "/" THEN StripLeading(Tail(s)) ELSE s

\* C13: joining a relative path to the API origin yields the origin, exactly
\* one separating slash, then the path, whether the input starts with no, one
\* or several slashes; the result has no doubled slash after the scheme and
\* keeps the host of the API origin.
C13_JoinOneSlash ==
  ( /\ urlFn = "getMediaUrl"
    /\ urlIn # <<>>
    /\ ~MatchesHttpPrefix(urlIn) ) =>
      /\ urlOut = Some(apiOrigin \o <<"/">> \o StripLeading(urlIn))
      /\ NoDoubledSlash(urlOut[1])

\* C14: getBestImageUrl picks the first non-empty field in the order
\* thumbnailUrl, fileUrl, externalUrl; the first two go through getMediaUrl,
\* externalUrl is returned verbatim, and the result is empty when all three
\* are empty.
NonEmpty(o) == o \notin {None, Some(<<>>)}

C14_BestImagePriority ==
  bestOut # None =>
    /\ NonEmpty(media.thumbnailUrl) =>
         bestOut[1] = getMediaUrl(media.thumbnailUrl[1])
    /\ (~NonEmpty(media.thumbnailUrl) /\ media.fileUrl # <<>>) =>
         bestOut[1] = getMediaUrl(media.fileUrl)
    /\ ( /\ ~NonEmpty(media.thumbnailUrl)
         /\ media.fileUrl = <<>>
         /\ NonEmpty(media.externalUrl) ) =>
         bestOut[1] = media.externalUrl[1]
    /\ ( /\ ~NonEmpty(media.thumbnailUrl)
         /\ media.fileUrl = <<>>
         /\ ~NonEmpty(media.externalUrl) ) => bestOut[1] = <<>>

C14_Witness ==
  /\ media.thumbnailUrl = Some(<<>>)
  /\ media.fileUrl = <<>>
  /\ media.externalUrl = Some(<<"/", "x">>)
  /\ bestOut = Some(<<"/", "x">>)

\* C15: getNoticeImageUrlWithFallback returns
\* <origin>/api/notice/image?path=<encoded path> for every relative path and
\* the input unchanged for every absolute http(s) input, absolute meaning what
\* it means to the resolver: ^https?:// in any letter case.
C15_FallbackSplit ==
  (urlFn = "getNoticeImageUrlWithFallback" /\ urlIn # <<>>) =>
    IF MatchesHttpPrefix(urlIn)
      THEN urlOut = Some(urlIn)
      ELSE urlOut = Some(apiOrigin \o ProxyPath \o encodeURIComponent(urlIn))

(***************************************************************************)
(* Notice image loading (pages/Notice.tsx, NoticeBanner)                   *)
(***************************************************************************)
MaxImageEvents == 4

\* the document the views run in: the dev server of vite.config.ts
DocumentBase == Url("http:", <<"localhost:5174">>, << <<>> >>)

\* imgElement.src read back: the attribute resolved against the document
ElementSrc(attr) ==
  LET u == URLparse(attr, Some(DocumentBase)) IN
    IF u.ok THEN UrlToString(u) ELSE attr

\* a handler that does not look at the attempts it counted
handleImageErrorForgetsAttempts(attempts, imagePath, src) ==
  LET fallbackUrl == getNoticeImageUrlWithFallback(imagePath) IN
    IF fallbackUrl # src
      THEN [attempts |-> attempts + 1, act |-> "retry", to |-> fallbackUrl]
      ELSE [attempts |-> attempts + 1, act |-> "hide", to |-> <<>>]

\* NoticePage.handleImageError; src is imgElement.src when the handler runs
handleImageError(attempts, imagePath, src) ==
  LET fallbackUrl == getNoticeImageUrlWithFallback(imagePath) IN
    IF attempts = 0 /\ fallbackUrl # src
      THEN [attempts |-> attempts + 1, act |-> "retry", to |-> fallbackUrl]
      ELSE [attempts |-> attempts + 1, act |-> "hide", to |-> <<>>]

\* NoticeBanner.handleImageError
bannerHandleImageError(attempts, imagePath, src) ==
  LET fallbackUrl == getNoticeImageUrlWithFallback(imagePath) IN
    IF attempts = 0 /\ fallbackUrl # src
      THEN [attempts |-> attempts + 1, act |-> "retry", to |-> fallbackUrl]
      ELSE [attempts |-> attempts + 1, act |-> "hide", to |-> <<>>]

\* the src attribute each view renders
InitialSrc(view, image) ==
  IF view = "page" THEN getNoticeImageUrl(image)
  ELSE getNoticeImageUrlWithFallback(image)

ImageViews == {"page", "banner"}

\* notice.image: relative paths, and absolute URLs with a host and a path
ImagePaths ==
  (UrlInputs \ {<<>>})
    \cup { <<sch, "/", "/", "x", "/">> \o p :
             sch \in {"http:", "HTTPS:"}, p \in SeqsUpTo(Lexemes, 1) }

InitImage ==
  /\ SessionIdle
  /\ ExtractIdle
  /\ UrlIdle
  /\ BestIdle
  /\ imgView \in ImageViews
  /\ imgPath \in ImagePaths
  /\ imgSrc = InitialSrc(imgView, imgPath)
  /\ imgHidden = FALSE
  /\ imageLoadAttempts = 0
  /\ imgLog = <<>>
  /\ ContactsIdle
  /\ GridIdle
  /\ BannerIdle

\* the element is fetching its src: it was rendered, or the handler set src
ImageFetching ==
  /\ ~imgHidden
  /\ Len(imgLog) < MaxImageEvents
  /\ IF imgLog = <<>> THEN TRUE ELSE imgLog[Len(imgLog)].act = "retry"

\* the error event of the img element
imageError ==
  /\ ImageFetching
  /\ LET src == ElementSrc(imgSrc)
         h == IF imgView = "page"
                THEN handleImageError(imageLoadAttempts, imgPath, src)
                ELSE bannerHandleImageError(imageLoadAttempts, imgPath, src)
     IN /\ imageLoadAttempts' = h.attempts
        /\ imgSrc' = IF h.act = "retry" THEN h.to ELSE imgSrc
        /\ imgHidden' = (h.act = "hide")
        /\ imgLog' = Append(imgLog, [event |-> "error", act |-> h.act,
                                     src |-> src, to |-> h.to])
  /\ UNCHANGED <<imgView, imgPath, sessionVars, viewVars, extractVars, urlVars, bestVars>>

\* the load event: onLoad only logs
imageLoad ==
  /\ ImageFetching
  /\ imgLog' = Append(imgLog, [event |-> "load", act |-> "none",
                               src |-> ElementSrc(imgSrc), to |-> <<>>])
  /\ UNCHANGED <<imgView, imgPath, imgSrc, imgHidden, imageLoadAttempts,
                 sessionVars, viewVars, extractVars, urlVars, bestVars>>

NextImage == imageError \/ imageLoad

SpecImage == InitImage /\ [][NextImage]_vars

(***************************************************************************)
(* Properties of notice image loading                                      *)
(***************************************************************************)
IsError(e) == e.event = "error"
ImageErrors == SelectSeq(imgLog, IsError)
IsRetry(e) == e.act = "retry"
ImageRetries == SelectSeq(imgLog, IsRetry)

\* C16 as stated: the first image-load error is answered by a retry with the
\* fallback URL, the second by hiding the image, in the page and in the
\* banner, and no image path is retried more than once.
C16_RetryOnceThenHide ==
  /\ Len(ImageErrors) >= 1 =>
       /\ ImageErrors[1].act = "retry"
       /\ ImageErrors[1].to = getNoticeImageUrlWithFallback(imgPath)
  /\ Len(ImageErrors) >= 2 => (ImageErrors[2].act = "hide" /\ imgHidden)
  /\ Len(ImageRetries) <= 1

\* C16, amended: the first image-load error is answered by a retry with the
\* fallback URL when that URL differs from the src the element has, and by
\* hiding the image at once when it is the same; a second error hides the
\* image; there are at most two errors and at most one retry, in the page and
\* in the banner.
C16_RetryUnlessSameThenHide ==
  /\ Len(ImageErrors) >= 1 =>
       LET e == ImageErrors[1]
           fallbackUrl == getNoticeImageUrlWithFallback(imgPath)
       IN IF fallbackUrl # e.src
            THEN e.act = "retry" /\ e.to = fallbackUrl
            ELSE e.act = "hide"
  /\ Len(ImageErrors) >= 2 => ImageErrors[2].act = "hide"
  /\ Len(ImageErrors) <= 2
  /\ Len(ImageRetries) <= 1
  /\ imgHidden <=> IF ImageErrors = <<>> THEN FALSE
                   ELSE ImageErrors[Len(ImageErrors)].act = "hide"
  /\ imageLoadAttempts = Len(ImageErrors)

\* the banner retried a relative path and hid the image on the second error
C16_Witness ==
  /\ imgView = "banner"
  /\ imgPath = <<"/", "x">>
  /\ Len(ImageErrors) = 2
  /\ ImageErrors[1].act = "retry"
  /\ imgHidden

(***************************************************************************)
(* Properties of the response tasks                                        *)
(***************************************************************************)
IsRemoval(e, key) == e.kind = "removeItem" /\ e.key = key
IsKind(e, kind) == e.kind = kind

\* the position of the first removal of `key` in the latest task, 0 if none
FirstRemoval(key) ==
  IF \E i \in 1..Len(effects) : IsRemoval(effects[i], key)
    THEN CHOOSE i \in 1..Len(effects) :
           /\ IsRemoval(effects[i], key)
           /\ \A j \in 1..(i - 1) : ~IsRemoval(effects[j], key)
    ELSE 0

\* the position of the first effect of `kind` in the latest task, 0 if none
FirstKind(kind) ==
  IF \E i \in 1..Len(effects) : IsKind(effects[i], kind)
    THEN CHOOSE i \in 1..Len(effects) :
           /\ IsKind(effects[i], kind)
           /\ \A j \in 1..(i - 1) : ~IsKind(effects[j], kind)
    ELSE 0

\* C17: on a 401 response the token and the profile are removed first, then
\* the navigation to the login path is requested, then the extracted message
\* is shown; the task sends no request (no retry) and stores no token (no
\* refresh).
C17_401Order ==
  After401 =>
    /\ 0 < FirstRemoval("token")
    /\ FirstRemoval("token") < FirstKind("navigate")
    /\ 0 < FirstRemoval("user")
    /\ FirstRemoval("user") < FirstKind("navigate")
    /\ FirstKind("navigate") < FirstKind("toast")
    /\ effects[FirstKind("navigate")].key = LoginPath
    /\ effects[FirstKind("toast")].val = extractErrorMessage(last.arg[1].received)
    /\ CountKind(effects, "setItem") = 0
    /\ lsToken = None
    /\ BagCardinality(pending) = last.arg[1].pendingBefore - 1

C17_Witness ==
  /\ After401
  /\ last.method = "login"
  /\ FirstKind("navigate") = 3
  /\ FirstKind("toast") = 4

\* the latest task handled a 401 when an earlier 401 of this document had
\* already requested the navigation to the login path
AfterSecond401 == After401 /\ last.arg[1].navBefore = Some(LoginPath)

\* where the document is, or is about to be
Destination == IF nav # None THEN nav[1] ELSE location

\* C18: a 401 that arrives after another 401 was handled, in whatever order
\* the two calls were answered, clears the session and navigates again, and
\* leaves what a single 401 leaves: no token, no profile, the login path.
C18_Second401Same ==
  AfterSecond401 =>
    /\ 0 < FirstRemoval("token")
    /\ 0 < FirstRemoval("user")
    /\ CountKind(effects, "navigate") = 1
    /\ lsToken = None
    /\ lsUser = None
    /\ Destination = LoginPath

C18_Witness ==
  /\ AfterSecond401
  /\ last.method = "getContacts"
  /\ last.arg[1].pendingBefore = 1
  /\ nav = Some(LoginPath)

\* C19: a method call puts one request in flight; a 2xx response makes the
\* method return the response body and nothing else; an error makes it show
\* a notification and throw the error it received, never another value and
\* never a normal return.
C19_ReturnsOrRethrows ==
  /\ last.op = "send" =>
       BagCardinality(pending) = last.arg[1].pendingBefore + 1
  /\ last.op = "resolved" =>
       /\ ~last.arg[1].threw
       /\ last.arg[1].value = last.arg[1].received
       /\ last.arg[1].before = 0
  /\ last.op = "rejected" =>
       /\ last.arg[1].threw
       /\ last.arg[1].value = last.arg[1].received
       /\ last.arg[1].before >= 2
       /\ IsKind(effects[last.arg[1].before], "toast")
       /\ effects[last.arg[1].before].val = extractErrorMessage(last.arg[1].received)

C19_Witness ==
  /\ last.op = "rejected"
  /\ last.method = "verifyToken"
  /\ last.status = 500
  /\ last.arg[1].threw
  /\ last.arg[1].value = last.arg[1].received

\* the latest task ended a failed call: an error, or a 2xx response whose
\* body is not of the expected shape
AfterFailedCall ==
  \/ last.op = "rejected"
  \/ (last.op = "resolved" /\ ~last.arg[1].received.isObj)

\* C20: every failed API call (network or timeout, 4xx, 5xx, malformed body)
\* shows at least one notification before its outcome reaches the caller.
C20_NotifiedBeforeCaller ==
  AfterFailedCall =>
    \E i \in 1..last.arg[1].before : IsKind(effects[i], "toast")

(***************************************************************************)
(* Properties of startup                                                   *)
(***************************************************************************)
\* the latest task was the synchronous part of initializeAuth
AfterMount == last.op = "initializeAuth"

BothStored == lsToken # None /\ lsUser # None

\* C21: at startup the stored session becomes the active session and
\* verifyToken is called exactly when both a token and a profile are stored;
\* with one of them or neither the user stays unauthenticated and no
\* verification request is sent.
C21_VerifyIffBothStored ==
  AfterMount =>
    /\ BothStored <=> (user # None /\ pending # EmptyBag)
    /\ ~BothStored => (user = None /\ pending = EmptyBag)

\* C24: startup always finishes: isLoading becomes false and stays false.
C24_LoadingEnds == <>[](~isLoading)

C24_Witness ==
  /\ last.op = "rejected"
  /\ last.method = "verifyToken"
  /\ last.status = 0
  /\ ~isLoading

(***************************************************************************)
(* Properties of the session across tasks                                  *)
(***************************************************************************)
\* C22: once startup verification is over, the in-memory user is non-null
\* exactly when storage holds a token and a profile, and is then the stored
\* profile.
C22_UserAgreesWithStorage ==
  initPc = "done" =>
    /\ (user # None) <=> BothStored
    /\ user # None => lsUser = Some(JSONstringify(user[1]))

\* the request that the step answered
Answered(r) == pending' = pending (-) SetToBag({r}) /\ pending' # pending

\* C23: a 401 for a request that was sent under another session than the one
\* now stored (another token, or none) leaves the stored token and profile
\* in place.
C23_Stale401KeepsSession ==
  [][ ( /\ After401'
        /\ BothStored
        /\ \E r \in BagToSet(pending) :
             Answered(r) /\ r.auth # requestInterceptor(lsToken) )
      => (lsToken' = lsToken /\ lsUser' = lsUser) ]_vars

\* the latest task ended a login or register that failed
AfterFailedSignIn ==
  /\ last.method \in {"login", "register"}
  /\ \/ last.op = "rejected"
     \/ (last.op = "resolved" /\ ~last.arg[1].received.success)

\* C25: a login or register that fails (the call throws, or the response has
\* success = false) returns false, writes neither the token nor the profile
\* to storage and does not set the active user.
C25_FailedSignInNoSession ==
  AfterFailedSignIn =>
    /\ last.arg[1].returned = Some(FALSE)
    /\ CountKind(effects, "setItem") = 0
    /\ CountKind(effects, "setUser") = 0

C25_Witness ==
  /\ AfterFailedSignIn
  /\ last.op = "resolved"
  /\ last.method = "register"
  /\ last.arg[1].returned = Some(FALSE)
  /\ lsToken = None
  /\ user = None

\* ---------------------------------------------------------------------
\* The Contacts view (src/unnamed/part_000)
\* ---------------------------------------------------------------------
\* Each handler of the view runs to completion; a call of the ApiService it
\* awaits stays in `calls` until the answer arrives, and answers arrive in any
\* order.  The params of a request decide nothing but what the backend answers,
\* and the answer is drawn from every page the backend can hold, so a call in
\* flight keeps only what its continuation uses.  The toasts of the view are
\* not part of its state and are left out.

MaxPages == 2   \* pages the backend reports
MaxCalls == 2   \* calls in flight at once

Ids == {"c1", "c2"}
StatusOptions == {"all", "pending"}
SearchTerms == {"", "a"}

\* a call in flight; `latest` marks the fetch sent last
Call(kind, ids, latest) == [kind |-> kind, ids |-> ids, latest |-> latest]
Older(cs) ==
  LET olds == { Call(c.kind, c.ids, FALSE) : c \in BagToSet(cs) }
  IN  [o \in olds |-> CopiesIn(Call(o.kind, o.ids, FALSE), cs)
                        + (IF o.kind = "fetch" THEN CopiesIn(Call("fetch", {}, TRUE), cs)
                           ELSE 0)]
Without(c) == calls (-) SetToBag({c})
CallsOf(kinds) == { c \in BagToSet(calls) : c.kind \in kinds }
CanCall == BagCardinality(calls) < MaxCalls

\* fetchContacts up to its await, beside the calls `remaining` in flight
fetchContacts(remaining) ==
  /\ contactsLoading' = TRUE
  /\ calls' = Older(remaining) (+) SetToBag({Call("fetch", {}, TRUE)})
  /\ shown' = "pending"

\* the view renders its controls unless the spinner replaces them
ControlsRendered == ~(contactsLoading /\ contacts = {})

\* answers of getContacts
FetchAnswers ==
  [success : BOOLEAN, contacts : SUBSET Ids, totalPages : 1..MaxPages]
Outcomes == {"success", "refused", "rejected"}

\* the view after its first render, the effect's fetch in flight
InitContacts ==
  /\ SessionIdle
  /\ ExtractIdle
  /\ UrlIdle
  /\ BestIdle
  /\ ImageIdle
  /\ GridIdle
  /\ BannerIdle
  /\ currentPage = 1
  /\ totalPages = 1
  /\ statusFilter = "all"
  /\ searchTerm = ""
  /\ contacts = {}
  /\ selectedContacts = {}
  /\ contactsLoading = TRUE
  /\ calls = SetToBag({Call("fetch", {}, TRUE)})
  /\ shown = "pending"

contactsFrame == UNCHANGED <<sessionVars, extractVars, urlVars, bestVars, imageVars,
                             gridVars, bannerVars>>

\* the Previous button and the effect its state change triggers
previousPage ==
  /\ ControlsRendered /\ CanCall
  /\ totalPages > 1 /\ currentPage # 1
  /\ currentPage' = (IF currentPage - 1 > 1 THEN currentPage - 1 ELSE 1)
  /\ fetchContacts(calls)
  /\ UNCHANGED <<totalPages, statusFilter, searchTerm, contacts, selectedContacts>>
  /\ contactsFrame

\* the Next button and the effect its state change triggers
nextPage ==
  /\ ControlsRendered /\ CanCall
  /\ totalPages > 1 /\ currentPage # totalPages
  /\ currentPage' = (IF currentPage + 1 < totalPages THEN currentPage + 1 ELSE totalPages)
  /\ fetchContacts(calls)
  /\ UNCHANGED <<totalPages, statusFilter, searchTerm, contacts, selectedContacts>>
  /\ contactsFrame

\* the status select and the effect its state change triggers
setStatusFilter ==
  /\ ControlsRendered /\ CanCall
  /\ \E v \in StatusOptions \ {statusFilter} : statusFilter' = v
  /\ fetchContacts(calls)
  /\ UNCHANGED <<currentPage, totalPages, searchTerm, contacts, selectedContacts>>
  /\ contactsFrame

\* the search input and the effect its state change triggers
setSearchTerm ==
  /\ ControlsRendered /\ CanCall
  /\ \E v \in SearchTerms \ {searchTerm} : searchTerm' = v
  /\ fetchContacts(calls)
  /\ UNCHANGED <<currentPage, totalPages, statusFilter, contacts, selectedContacts>>
  /\ contactsFrame

\* fetchContacts from its await on; a body without data throws into the same catch
\* as a rejected call
fetchAnswered ==
  /\ \E c \in CallsOf({"fetch"}), a \in FetchAnswers, rejected \in BOOLEAN :
       /\ calls' = Without(c)
       /\ contactsLoading' = FALSE
       /\ IF ~rejected /\ a.success
            THEN /\ contacts' = a.contacts
                 /\ totalPages' = a.totalPages
                 /\ shown' = (IF c.latest THEN "shown"
                              ELSE IF shown = "shown" THEN "overwritten"
                              ELSE shown)
            ELSE /\ UNCHANGED <<contacts, totalPages>>
                 /\ shown' = (IF c.latest THEN "failed" ELSE shown)
  /\ UNCHANGED <<currentPage, statusFilter, searchTerm, selectedContacts>>
  /\ contactsFrame

\* a row's mark-as-read, mark-as-replied or spam button, up to its await
handleStatusUpdate ==
  /\ ControlsRendered /\ CanCall
  /\ contacts # {}
  /\ calls' = calls (+) SetToBag({Call("status", {}, FALSE)})
  /\ UNCHANGED <<currentPage, totalPages, statusFilter, searchTerm, contacts,
                 selectedContacts, contactsLoading, shown>>
  /\ contactsFrame

\* a row's delete button with the confirmation accepted, up to its await
handleDelete ==
  /\ ControlsRendered /\ CanCall
  /\ contacts # {}
  /\ calls' = calls (+) SetToBag({Call("delete", {}, FALSE)})
  /\ UNCHANGED <<currentPage, totalPages, statusFilter, searchTerm, contacts,
                 selectedContacts, contactsLoading, shown>>
  /\ contactsFrame

\* a bulk button, up to its await; the buttons are rendered for a selection only
handleBulkAction ==
  /\ ControlsRendered /\ CanCall
  /\ selectedContacts # {}
  /\ calls' = calls (+) SetToBag({Call("bulk", selectedContacts, FALSE)})
  /\ UNCHANGED <<currentPage, totalPages, statusFilter, searchTerm, contacts,
                 selectedContacts, contactsLoading, shown>>
  /\ contactsFrame

\* handleStatusUpdate and handleDelete from the await on
rowActionAnswered ==
  /\ \E c \in CallsOf({"status", "delete"}), o \in Outcomes :
       IF o = "success"
         THEN fetchContacts(Without(c))
         ELSE /\ calls' = Without(c)
              /\ UNCHANGED <<contactsLoading, shown>>
  /\ UNCHANGED <<currentPage, totalPages, statusFilter, searchTerm, contacts,
                 selectedContacts>>
  /\ contactsFrame

\* handleBulkAction from the await on
bulkActionAnswered ==
  /\ \E c \in CallsOf({"bulk"}), o \in Outcomes :
       IF o = "success"
         THEN /\ selectedContacts' = {}
              /\ fetchContacts(Without(c))
         ELSE /\ calls' = Without(c)
              /\ UNCHANGED <<selectedContacts, contactsLoading, shown>>
  /\ UNCHANGED <<currentPage, totalPages, statusFilter, searchTerm, contacts>>
  /\ contactsFrame

toggleContactSelection ==
  /\ ControlsRendered
  /\ \E contactId \in contacts :
       selectedContacts' = (IF contactId \in selectedContacts
                              THEN selectedContacts \ {contactId}
                              ELSE selectedContacts \cup {contactId})
  /\ UNCHANGED <<currentPage, totalPages, statusFilter, searchTerm, contacts,
                 contactsLoading, calls, shown>>
  /\ contactsFrame

toggleSelectAll ==
  /\ ControlsRendered
  /\ selectedContacts' = (IF Cardinality(selectedContacts) = Cardinality(contacts)
                            THEN {} ELSE contacts)
  /\ UNCHANGED <<currentPage, totalPages, statusFilter, searchTerm, contacts,
                 contactsLoading, calls, shown>>
  /\ contactsFrame

NextContacts ==
  \/ previousPage
  \/ nextPage
  \/ setStatusFilter
  \/ setSearchTerm
  \/ fetchAnswered
  \/ handleStatusUpdate
  \/ handleDelete
  \/ handleBulkAction
  \/ rowActionAnswered
  \/ bulkActionAnswered
  \/ toggleContactSelection
  \/ toggleSelectAll

SpecContacts == InitContacts /\ [][NextContacts]_vars

\* ---------------------------------------------------------------------
\* Properties of the Contacts view
\* ---------------------------------------------------------------------

\* C26: in the list views 1 <= currentPage <= totalPages holds in every state
\* reached by Previous/Next clicks, filter or search changes and completed
\* fetches.
C26_PageWithinTotal == 1 <= currentPage /\ currentPage <= totalPages

\* C27: once no fetch is in flight, the contacts and totalPages displayed are
\* those returned for the fetch sent last, whatever order the answers of
\* overlapping fetches arrived in (a last fetch that failed displays nothing
\* of its own and is not held against the view).
FetchesCompleted == CallsOf({"fetch"}) = {}
C27_LatestQueryShown == (FetchesCompleted /\ shown # "failed") => shown = "shown"

\* C28: the selected contact IDs are always among the IDs of the contacts
\* displayed, so the select-all box is checked exactly when every displayed
\* contact is selected, and a bulk action sends IDs of displayed contacts only.
SelectAllChecked ==
  Cardinality(selectedContacts) = Cardinality(contacts) /\ Cardinality(contacts) > 0
BulkSendsDisplayed ==
  \A c \in BagToSet(calls') :
    (c.kind = "bulk" /\ CopiesIn(c, calls') > CopiesIn(c, calls)) => c.ids \subseteq contacts
C28_SelectionDisplayed ==
  /\ [](/\ selectedContacts \subseteq contacts
        /\ contacts # {} => (SelectAllChecked <=> contacts \subseteq selectedContacts))
  /\ [][BulkSendsDisplayed]_vars

\* ---------------------------------------------------------------------
\* One image of the media grid (src/unnamed/part_001)
\* ---------------------------------------------------------------------
\* The element fetches the source it was given and fires load or error; an
\* assignment to src, of the same text too, starts the next fetch.  React
\* leaves the attribute alone on a re-render, the src prop being unchanged.

MaxGridEvents == 3   \* load and error events of one element

\* 'https://via.placeholder.com/300x200?text=Image+Not+Found'
Placeholder == <<"https:", "/", "/", "placeholder">>

getImageFallback(item) ==
  IF TruthyText(item.externalUrl) THEN item.externalUrl[1] ELSE Placeholder

InitGrid ==
  /\ SessionIdle
  /\ ExtractIdle
  /\ UrlIdle
  /\ BestIdle
  /\ ImageIdle
  /\ ContactsIdle
  /\ BannerIdle
  /\ gridItem \in MediaInputs
  /\ gridSrc = getBestImageUrl(gridItem)
  /\ imageLoadingStates = None
  /\ gridLog = <<>>

\* the element is fetching until it has fired load
GridFetching == IF gridLog = <<>> THEN TRUE ELSE gridLog[Len(gridLog)].event # "load"

gridFrame == UNCHANGED <<gridItem, sessionVars, extractVars, urlVars, bestVars,
                         imageVars, contactsVars, bannerVars>>

\* onError of the grid image: handleImageError, then the fallback is assigned
gridImageError ==
  /\ GridFetching
  /\ Len(gridLog) < MaxGridEvents
  /\ imageLoadingStates' = Some(FALSE)
  /\ gridSrc' = getImageFallback(gridItem)
  /\ gridLog' = Append(gridLog, [event |-> "error", src |-> Some(gridSrc')])
  /\ gridFrame

\* onLoad of the grid image; an empty source loads nothing
gridImageLoad ==
  /\ GridFetching
  /\ Len(gridLog) < MaxGridEvents
  /\ gridSrc # <<>>
  /\ imageLoadingStates' = Some(FALSE)
  /\ gridLog' = Append(gridLog, [event |-> "load", src |-> None])
  /\ UNCHANGED gridSrc
  /\ gridFrame

NextGrid == gridImageError \/ gridImageLoad

SpecGrid == InitGrid /\ [][NextGrid]_vars

\* C29: in the media grid, image error handling reaches a terminal state: the
\* source is replaced by a fallback at most once, and a load error of the
\* fallback does not assign a source again.
Assignments == { i \in DOMAIN gridLog : gridLog[i].src # None }
C29_FallbackAtMostOnce == Cardinality(Assignments) <= 1

\* ---------------------------------------------------------------------
\* The NoticeBanner (src/unnamed/part_002)
\* ---------------------------------------------------------------------

Priorities == {"low", "medium", "high", "urgent"}
NoticeImages == {None, Some(<<"x">>), Some(<<"/", "x">>)}
Notices ==
  [isActive : BOOLEAN, isCurrentlyActive : BOOLEAN, priority : Priorities,
   image : NoticeImages]

\* bodies getCurrentNotice hands over: `data` may be missing, `notice` may be null
NoticeBodies ==
  { [success |-> success, data |-> data] :
      success \in BOOLEAN,
      data \in {None, Some(None)} \cup { Some(Some(n)) : n \in Notices } }

\* a notice that tests only isActive
ShowsNoticeIgnoresExpiry(currentNotice) == currentNotice.isActive

\* the test of fetchCurrentNotice on the notice it received
ShowsNotice(currentNotice) == currentNotice.isActive /\ currentNotice.isCurrentlyActive

\* the render guard
BannerRendered == ~(bannerLoading \/ notice = None \/ ~isVisible)

InitBanner ==
  /\ SessionIdle
  /\ ExtractIdle
  /\ UrlIdle
  /\ BestIdle
  /\ ImageIdle
  /\ ContactsIdle
  /\ GridIdle
  /\ BannerIdle

bannerFrame == UNCHANGED <<sessionVars, extractVars, urlVars, bestVars, imageVars,
                           contactsVars, gridVars>>

\* the mount effect: fetchCurrentNotice up to its await
fetchCurrentNotice ==
  /\ bannerPc = "mount"
  /\ bannerLoading' = TRUE
  /\ bannerPc' = "fetching"
  /\ UNCHANGED <<notice, isVisible, bannerGot>>
  /\ bannerFrame

\* fetchCurrentNotice from the await on, getCurrentNotice having returned b;
\* reading `notice` of a missing `data` throws into the catch
noticeResolved ==
  /\ bannerPc = "fetching"
  /\ \E b \in NoticeBodies :
       /\ notice' = (IF /\ b.success
                        /\ b.data # None
                        /\ b.data[1] # None
                        /\ ShowsNotice(b.data[1][1])
                       THEN b.data[1]
                       ELSE notice)
       /\ bannerGot' = Some([rejected |-> FALSE, body |-> Some(b)])
  /\ bannerLoading' = FALSE
  /\ bannerPc' = "done"
  /\ UNCHANGED isVisible
  /\ bannerFrame

\* fetchCurrentNotice from the await on, getCurrentNotice having thrown
noticeRejected ==
  /\ bannerPc = "fetching"
  /\ bannerGot' = Some([rejected |-> TRUE, body |-> None])
  /\ bannerLoading' = FALSE
  /\ bannerPc' = "done"
  /\ UNCHANGED <<notice, isVisible>>
  /\ bannerFrame

\* the dismiss button of the rendered banner
dismiss ==
  /\ BannerRendered
  /\ isVisible' = FALSE
  /\ UNCHANGED <<notice, bannerLoading, bannerPc, bannerGot>>
  /\ bannerFrame

NextBanner == fetchCurrentNotice \/ noticeResolved \/ noticeRejected \/ dismiss

SpecBanner == InitBanner /\ [][NextBanner]_vars

\* C30: the banner is rendered only when loading has finished, the fetched
\* notice has isActive and isCurrentlyActive both true and the user has not
\* dismissed it; a failed fetch renders no banner; once dismissed the banner
\* stays hidden.
FetchedActiveNotice ==
  /\ bannerGot # None
  /\ ~bannerGot[1].rejected
  /\ LET b == bannerGot[1].body[1]
     IN  /\ b.data # None
         /\ b.data[1] # None
         /\ b.data[1][1].isActive
         /\ b.data[1][1].isCurrentlyActive
         /\ notice = b.data[1]
C30_RenderedOnlyActive ==
  /\ [](BannerRendered => (bannerPc = "done" /\ FetchedActiveNotice /\ isVisible))
  /\ [][~isVisible => ~BannerRendered']_vars
C30_Witness == BannerRendered /\ notice[1].priority = "urgent"

====
